---- MODULE Spec2Model ----
(***************************************************************************)
(* Model of the critique / score / validate / refine cycle of the          *)
(* documentation agent: src/src/ai_agent.py (AIAgent), its scorer,         *)
(* validator and combiner in src/src/utils/semantic_critique.py, and the   *)
(* response cache and generation gateway in src/src/utils/api_utils.py.    *)
(*                                                                         *)
(* Texts (critiques, documents, prompts) are sequences of tokens.  A token *)
(* is a whitespace-free piece of text, except for a few block tokens that  *)
(* stand for a fixed run of words (see Words).  Python floats are modelled *)
(* as exact rationals <<numerator, denominator>>; IEEE rounding is not     *)
(* modelled.                                                               *)
(***************************************************************************)
EXTENDS Integers, Sequences, FiniteSets, TLC

VARIABLES
    call,               \* the last call made on a function or on the cache
    files,              \* cache_dir: the *.json files, by key
    now,                \* time.time(), in seconds
    cache,              \* the ResponseCache object (its limits), or NoCache
    open_files,         \* the cache file each process has open for writing
    config,             \* AgentConfig
    max_iterations,     \* the argument of AIAgent.run
    pc,                 \* the position of run
    i,                  \* the loop variable of run
    documentation,      \* self.documentation
    initial_critique,   \* the answer of the generator in critique_documentation
    critique,           \* self.critique
    iteration_metrics,  \* self.iteration_metrics
    documentation_validator,    \* self.documentation_validator
    loop_exit,          \* how the for loop of run was left: break or else
    output,             \* the content of the saved file, or None
    exit_code,          \* the value returned by run, or NotReturned
    observed            \* what the generator was asked and what was decided

(***************************************************************************)
(* Exact rational arithmetic, standing for Python float arithmetic.        *)
(***************************************************************************)
Abs(n) == IF n < 0 THEN -n ELSE n

RECURSIVE GCD(_, _)
GCD(a, b) == IF b = 0 THEN a ELSE GCD(b, a % b)

R(n, d) ==
    LET g == GCD(Abs(n), Abs(d))
        s == IF d < 0 THEN -1 ELSE 1
    IN  <<(s * n) \div g, (s * d) \div g>>

RInt(n) == <<n, 1>>
RAdd(a, b) == R(a[1] * b[2] + b[1] * a[2], a[2] * b[2])
RSub(a, b) == R(a[1] * b[2] - b[1] * a[2], a[2] * b[2])
RMul(a, b) == R(a[1] * b[1], a[2] * b[2])
RDiv(a, b) == R(a[1] * b[2], a[2] * b[1])
RLe(a, b) == a[1] * b[2] <= b[1] * a[2]
RLt(a, b) == a[1] * b[2] < b[1] * a[2]
RMin(a, b) == IF RLt(b, a) THEN b ELSE a      \* Python min(a, b)
RMax(a, b) == IF RLt(a, b) THEN b ELSE a      \* Python max(a, b)
Zero == RInt(0)
One == RInt(1)
InUnit(x) == RLe(Zero, x) /\ RLe(x, One)

RECURSIVE RSum(_)
RSum(s) == IF s = <<>> THEN Zero ELSE RAdd(s[1], RSum(Tail(s)))

(***************************************************************************)
(* Texts.                                                                  *)
(***************************************************************************)
None == <<"<None>">>          \* Python None, distinct from every text
Blank == " "                  \* a run of whitespace

\* str.lower() on one token.
LowerToken(t) ==
    CASE t = "No" -> "no"
      [] t = "Changes" -> "changes"
      [] t = "Needed" -> "needed"
      [] t = "Robust" -> "robust"
      [] t = "Missing" -> "missing"
      [] t = "Calculator" -> "calculator"
      [] t = "nonExistentFunction" -> "nonexistentfunction"
      [] t = "API" -> "api"
      [] t = "Class" -> "class"
      [] OTHER -> t

lower(text) == [k \in 1..Len(text) |-> LowerToken(text[k])]

RECURSIVE lstrip(_)
lstrip(text) ==
    IF text # <<>> /\ Head(text) = Blank THEN lstrip(Tail(text)) ELSE text

RECURSIVE rstrip(_)
rstrip(text) ==
    IF text # <<>> /\ text[Len(text)] = Blank
    THEN rstrip(SubSeq(text, 1, Len(text) - 1))
    ELSE text

\* str.strip()
strip(text) == rstrip(lstrip(text))

\* Number of whitespace-separated words a token stands for.
ParagraphWords == 50
HeaderWords == 27
NoIssuesWords == 15
SectionTitleWords == 3
IssuesTitleWords == 4
ErrorEntryWords == 29
NamingEntryWords == 20
UndocumentedEntryWords == 18

Words(t) ==
    CASE t = Blank -> 0
      [] t = "<paragraph>" -> ParagraphWords
      [] t = "<semantic analysis>" -> HeaderWords
      [] t = "<no validation issues>" -> NoIssuesWords
      [] t = "<cross-validation results>" -> SectionTitleWords
      [] t = "<critical issues>" -> IssuesTitleWords
      [] t = "<warnings>" -> SectionTitleWords
      [] t = "<missing_element entry>" -> ErrorEntryWords
      [] t = "<naming_inconsistency entry>" -> NamingEntryWords
      [] t = "<undocumented_element entry>" -> UndocumentedEntryWords
      [] OTHER -> 1

RECURSIVE word_count(_)
\* len(text.split())
word_count(text) ==
    IF text = <<>> THEN 0 ELSE Words(Head(text)) + word_count(Tail(text))

\* The test 'phrase in text' on token sequences.
Contains(text, phrase) ==
    \E k \in 0..(Len(text) - Len(phrase)) :
        SubSeq(text, k + 1, k + Len(phrase)) = phrase

(***************************************************************************)
(* SemanticCritiqueAnalyzer.                                               *)
(***************************************************************************)
Aspects == <<"technical_accuracy", "completeness", "clarity", "structure", "usefulness">>

\* The keywords of the patterns that occur inside a (lower-cased) token, each
\* with the number of times it occurs.
Keywords(t) ==
    CASE t = "clear" -> [clear |-> 1]
      [] t = "unclear" -> [unclear |-> 1, clear |-> 1]
      [] t = "comprehensive" -> [comprehensive |-> 1]
      [] t = "incomplete" -> [incomplete |-> 1, complete |-> 1]
      [] t = "missing" -> [missing |-> 1]
      [] t = "robust" -> [robust |-> 1]
      [] t = "useful" -> [useful |-> 1]
      [] t = "useless" -> [useless |-> 1]
      [] t = "<semantic analysis>" -> [complete |-> 1, useful |-> 1]
      [] t = "<missing_element entry>" -> [missing |-> 2]
      [] OTHER -> [none |-> 0]

\* The single-word alternatives of each pattern; a pattern whose alternatives
\* all span several words is kept as the empty set (it matches no token).
positive_patterns ==
    [technical_accuracy |-> << {"sophisticated"}, {}, {},
                               {"comprehensive", "thorough", "complete", "maintainable", "robust"},
                               {} >>,
     completeness |-> << {"comprehensive"}, {}, {}, {} >>,
     clarity |-> << {"clear"}, {"concise", "logical"},
                    {"readable", "accessible", "intuitive"} >>,
     structure |-> << {}, {}, {}, {"maintainable", "robust"} >>,
     usefulness |-> << {"helpful", "useful", "practical", "actionable"}, {}, {} >>]

negative_patterns ==
    [technical_accuracy |-> << {"inaccurate", "incorrect", "wrong", "error"},
                               {"misleading", "confusing", "unclear"}, {},
                               {"unmaintainable"} >>,
     completeness |-> << {"incomplete", "missing", "omitted"}, {"insufficient"}, {} >>,
     clarity |-> << {"unclear", "confusing"}, {}, {} >>,
     structure |-> << {}, {}, {"inconsistent"} >>,
     usefulness |-> << {"unhelpful", "useless"}, {"impractical"}, {} >>]

\* len(re.findall(pattern, token)): alternatives found in one token do not
\* overlap in the vocabulary, except a keyword inside a longer alternative of
\* the same pattern, which the regex matches once.
MaxOf(S) == IF S = {} THEN 0 ELSE CHOOSE m \in S : \A x \in S : x <= m

TokenMatches(t, pattern) ==
    LET kw == Keywords(t)
    IN  MaxOf({kw[k] : k \in (DOMAIN kw) \cap pattern})

RECURSIVE TextMatches(_, _)
TextMatches(text, pattern) ==
    IF text = <<>> \/ pattern = {} THEN 0
    ELSE TokenMatches(Head(text), pattern) + TextMatches(Tail(text), pattern)

RECURSIVE count_pattern_matches(_, _)
count_pattern_matches(text, patterns) ==
    IF patterns = <<>> THEN 0
    ELSE TextMatches(text, Head(patterns)) + count_pattern_matches(text, Tail(patterns))

positive_weight == RInt(1)

\* Negative matches weighing as much as positive ones.
negative_weight_even == R(1, 1)

negative_weight == R(12, 10)

\* calculate_aspect_score without the final clamp to [0, 1].
calculate_aspect_score_unclamped(positive_matches, negative_matches) ==
    IF positive_matches = 0 /\ negative_matches = 0 THEN R(1, 2)
    ELSE RDiv(RAdd(RDiv(RSub(RInt(positive_matches),
                             RMul(RInt(negative_matches), R(12, 10))),
                        RInt(positive_matches + negative_matches)), One), RInt(2))

calculate_aspect_score(positive_matches, negative_matches) ==
    IF positive_matches = 0 /\ negative_matches = 0 THEN R(1, 2)
    ELSE LET net_score == RSub(RMul(RInt(positive_matches), positive_weight),
                               RMul(RInt(negative_matches), negative_weight))
             total_matches == positive_matches + negative_matches
             normalized_score == RDiv(RAdd(RDiv(net_score, RInt(total_matches)), One), RInt(2))
         IN  RMax(Zero, RMin(One, normalized_score))

\* The confidence taken from the length of the critique alone.
calculate_confidence_length_only(pos_matches, neg_matches, wc) == RMin(One, R(wc, 50))

calculate_confidence(pos_matches, neg_matches, wc) ==
    LET total_matches == pos_matches + neg_matches
        match_confidence == RMin(One, R(total_matches, 2))
        length_confidence == RMin(One, R(wc, 50))
    IN  RDiv(RAdd(match_confidence, length_confidence), RInt(2))

\* One iteration of the loop over the aspects: <<aspect_score, confidence>>.
AnalyzeAspect(critique_lower, words, aspect) ==
    LET pos_matches == count_pattern_matches(critique_lower, positive_patterns[aspect])
        neg_matches == count_pattern_matches(critique_lower, negative_patterns[aspect])
    IN  << calculate_aspect_score(pos_matches, neg_matches),
           calculate_confidence(pos_matches, neg_matches, words) >>

analyze_critique_semantically(critique_text) ==
    LET critique_lower == strip(lower(critique_text))
        words == word_count(critique_text)
        a1 == AnalyzeAspect(critique_lower, words, Aspects[1])
        a2 == AnalyzeAspect(critique_lower, words, Aspects[2])
        a3 == AnalyzeAspect(critique_lower, words, Aspects[3])
        a4 == AnalyzeAspect(critique_lower, words, Aspects[4])
        a5 == AnalyzeAspect(critique_lower, words, Aspects[5])
        scores == <<a1[1], a2[1], a3[1], a4[1], a5[1]>>
        confidences == <<a1[2], a2[2], a3[2], a4[2], a5[2]>>
    IN  [overall_score |-> RDiv(RSum(scores), RInt(Len(scores))),
         technical_accuracy |-> scores[1],
         completeness |-> scores[2],
         clarity |-> scores[3],
         structure |-> scores[4],
         usefulness |-> scores[5],
         confidence |-> RDiv(RSum(confidences), RInt(Len(confidences)))]

(***************************************************************************)
(* Score combiner.                                                         *)
(***************************************************************************)
CountSeverity(issues, sev) ==
    Cardinality({k \in 1..Len(issues) : issues[k].severity = sev})

\* create_semantic_critique_score with the confidence applied before the
\* penalties are subtracted.
create_semantic_critique_score_early_confidence(semantic_analysis, issues) ==
    LET weighted == RMul(semantic_analysis.overall_score, semantic_analysis.confidence)
        penalties == RAdd(RMul(RInt(CountSeverity(issues, "error")), R(2, 10)),
                          RMul(RInt(CountSeverity(issues, "warning")), R(1, 10)))
    IN  RMax(Zero, RMin(One, RSub(weighted, penalties)))

create_semantic_critique_score(semantic_analysis, issues) ==
    LET base_score == semantic_analysis.overall_score
        error_count == CountSeverity(issues, "error")
        warning_count == CountSeverity(issues, "warning")
        error_penalty == RMul(RInt(error_count), R(2, 10))
        warning_penalty == RMul(RInt(warning_count), R(1, 10))
        confidence_multiplier == semantic_analysis.confidence
        final_score == RMul(RSub(RSub(base_score, error_penalty), warning_penalty),
                            confidence_multiplier)
    IN  RMax(Zero, RMin(One, final_score))

(***************************************************************************)
(* DocumentationValidator.                                                 *)
(***************************************************************************)
\* An arbitrary but fixed enumeration of a set (Python iterates a set in an
\* order the program does not control).
RECURSIVE SetToSeq(_)
SetToSeq(S) ==
    IF S = {} THEN <<>>
    ELSE LET x == CHOOSE y \in S : TRUE IN <<x>> \o SetToSeq(S \ {x})

\* group(1) of the pattern (\w+)\s*\(.*\) inside one token, "" when the token
\* is no call.
CallName(t) ==
    CASE t = "calculate_sum()" -> "calculate_sum"
      [] t = "Calculator()" -> "Calculator"
      [] t = "calculator()" -> "calculator"
      [] t = "nonExistentFunction()" -> "nonExistentFunction"
      [] t = "_helper()" -> "_helper"
      [] t = "API()" -> "API"
      [] t = "db()" -> "db"
      [] OTHER -> ""

\* A token made of word characters only (\w+).
IsWord(t) ==
    t \in {"calculate_sum", "Calculator", "calculator", "nonExistentFunction",
           "_helper", "API", "api", "db", "class", "Class", "word"}

StopWords ==
    {"the", "and", "for", "with", "this", "that", "are", "will", "from", "code",
     "api", "int", "str", "bool", "dict", "float", "new", "or", "not", "try",
     "case", "when", "then"}

\* The names the method_patterns capture in the documentation: calls, and the
\* word following "class" (matched with re.IGNORECASE).  The tokens of a
\* documentation stand on lines of their own: (\w+)\s*\(.*\) is greedy and
\* captures one call per line, class\s+(\w+) reaches over the line break.
CapturedNames(documentation_text) ==
    ({CallName(documentation_text[k]) : k \in 1..Len(documentation_text)} \ {""})
    \cup {documentation_text[k + 1] : k \in
            {j \in 1..(Len(documentation_text) - 1) :
                /\ LowerToken(documentation_text[j]) = "class"
                /\ IsWord(documentation_text[j + 1])}}

extract_documented_elements(documentation_text) ==
    {element \in CapturedNames(documentation_text) :
        Len(element) > 2 /\ LowerToken(element) \notin StopWords}

ElementNames(code_elements) == {code_elements[k].name : k \in 1..Len(code_elements)}

\* next(key for key in code_elements.keys() if key.lower() == name.lower())
FirstCaseInsensitive(code_elements, name) ==
    LET k == CHOOSE j \in 1..Len(code_elements) :
                /\ LowerToken(code_elements[j].name) = LowerToken(name)
                /\ \A m \in 1..(j - 1) :
                      LowerToken(code_elements[m].name) # LowerToken(name)
    IN  code_elements[k]

\* The check without its elif branch: a name that differs in case only counts
\* as present.
DocumentedIssueCaseBlind(code_elements, doc_element) ==
    IF LowerToken(doc_element) \in
          {LowerToken(n) : n \in ElementNames(code_elements)}
    THEN <<>>
    ELSE << [severity |-> "error", issue_type |-> "missing_element",
             element |-> doc_element, suggested_fix |-> doc_element,
             location |-> "documentation"] >>

DocumentedIssue(code_elements, doc_element) ==
    IF doc_element \in ElementNames(code_elements) THEN <<>>
    ELSE IF LowerToken(doc_element) \in
              {LowerToken(n) : n \in ElementNames(code_elements)}
    THEN << [severity |-> "warning", issue_type |-> "naming_inconsistency",
             element |-> doc_element,
             suggested_fix |-> FirstCaseInsensitive(code_elements, doc_element).name,
             location |-> FirstCaseInsensitive(code_elements, doc_element).file] >>
    ELSE << [severity |-> "error", issue_type |-> "missing_element",
             element |-> doc_element, suggested_fix |-> doc_element,
             location |-> "documentation"] >>

RECURSIVE Flatten(_)
Flatten(ss) == IF ss = <<>> THEN <<>> ELSE Head(ss) \o Flatten(Tail(ss))

check_for_documented_elements(code_elements, documented_elements) ==
    LET order == SetToSeq(documented_elements)
    IN  Flatten([k \in 1..Len(order) |-> DocumentedIssue(code_elements, order[k])])

IsPrivate(name) == name \in {"_helper"}      \* name.startswith('_')

UndocumentedLimit == 5

\* The check without the [:5] of its loop.
check_for_undocumented_elements_unlimited(code_elements, documented_elements) ==
    LET undocumented == SelectSeq(code_elements,
            LAMBDA e : /\ e.type \in {"function", "class"}
                       /\ ~IsPrivate(e.name)
                       /\ e.name \notin documented_elements)
    IN  [k \in 1..Len(undocumented) |->
            [severity |-> "warning", issue_type |-> "undocumented_element",
             element |-> undocumented[k].name, suggested_fix |-> undocumented[k].name,
             location |-> undocumented[k].file]]

check_for_undocumented_elements(code_elements, documented_elements) ==
    LET undocumented == SelectSeq(code_elements,
            LAMBDA e : /\ e.type \in {"function", "class"}
                       /\ ~IsPrivate(e.name)
                       /\ e.name \notin documented_elements)
        shown == SubSeq(undocumented, 1,
                        IF Len(undocumented) < UndocumentedLimit
                        THEN Len(undocumented) ELSE UndocumentedLimit)
    IN  [k \in 1..Len(shown) |->
            [severity |-> "warning", issue_type |-> "undocumented_element",
             element |-> shown[k].name, suggested_fix |-> shown[k].name,
             location |-> shown[k].file]]

\* The three claim validators return no issue.
validate_api_claims(documentation_text) == <<>>

validate_documentation(code_elements, documentation_text) ==
    LET documented_elements == extract_documented_elements(documentation_text)
    IN  check_for_documented_elements(code_elements, documented_elements)
        \o check_for_undocumented_elements(code_elements, documented_elements)
        \o validate_api_claims(documentation_text)

(***************************************************************************)
(* AIAgent.is_critique_positive.                                           *)
(***************************************************************************)
explicit_positive ==
    << <<"excellent", "and", "requires", "no", "changes">>,
       <<"perfect", "and", "requires", "no", "changes">>,
       <<"documentation", "is", "excellent">>,
       <<"documentation", "is", "perfect">>,
       <<"no", "changes", "needed">>,
       <<"no", "improvements", "necessary">>,
       <<"satisfactory", "as", "is">> >>

HasExplicitPositive(critique_text) ==
    LET critique_lower == strip(lower(critique_text))
    IN  \E k \in 1..Len(explicit_positive) :
            Contains(critique_lower, explicit_positive[k])

\* bool(x) of a text or None, and of a validator (an object, or None).
Truthy(x) == x # None /\ x # <<>>

\* The validation_issues is_critique_positive works with.
IssuesFor(documentation_text, validator) ==
    IF Truthy(documentation_text) /\ validator # None
    THEN validate_documentation(validator, documentation_text)
    ELSE <<>>

\* is_critique_positive deciding on the score alone, without the test on the
\* critical errors.
is_critique_positive_score_only(critique_text, documentation_text, validator, critique_threshold) ==
    HasExplicitPositive(critique_text)
    \/ RLe(critique_threshold,
           create_semantic_critique_score(analyze_critique_semantically(critique_text),
                                          IssuesFor(documentation_text, validator)))

\* is_critique_positive consulting the validator before the explicit phrases.
is_critique_positive_validator_first(critique_text, documentation_text, validator, critique_threshold) ==
    /\ CountSeverity(IssuesFor(documentation_text, validator), "error") = 0
    /\ \/ HasExplicitPositive(critique_text)
       \/ RLe(critique_threshold,
              create_semantic_critique_score(analyze_critique_semantically(critique_text),
                                             IssuesFor(documentation_text, validator)))

is_critique_positive(critique_text, documentation_text, validator, critique_threshold) ==
    IF HasExplicitPositive(critique_text) THEN TRUE
    ELSE LET semantic_score == analyze_critique_semantically(critique_text)
             validation_issues == IssuesFor(documentation_text, validator)
             final_score == create_semantic_critique_score(semantic_score, validation_issues)
             critical_errors == CountSeverity(validation_issues, "error")
         IN  RLe(critique_threshold, final_score) /\ critical_errors = 0

(***************************************************************************)
(* ResponseCache: one file per key in cache_dir.                           *)
(***************************************************************************)
\* json.dump / json.load of a string: quotes, backslashes and line ends are
\* written as two-character escapes and read back.
RECURSIVE json_escape(_)
json_escape(text) ==
    IF text = <<>> THEN <<>>
    ELSE (CASE Head(text) = "<quote>" -> <<"<backslash>", "<quote>">>
            [] Head(text) = "<backslash>" -> <<"<backslash>", "<backslash>">>
            [] Head(text) = "<newline>" -> <<"<backslash>", "n">>
            [] OTHER -> <<Head(text)>>) \o json_escape(Tail(text))

RECURSIVE json_unescape(_)
json_unescape(chars) ==
    IF chars = <<>> THEN <<>>
    ELSE IF Head(chars) = "<backslash>" /\ Len(chars) >= 2
    THEN <<(CASE chars[2] = "n" -> "<newline>" [] OTHER -> chars[2])>>
         \o json_unescape(Tail(Tail(chars)))
    ELSE <<Head(chars)>> \o json_unescape(Tail(chars))

\* A file json.load cannot decode.
Garbage == [undecodable |-> TRUE]

\* self.cache of an agent with caching disabled.
NoCache == [disabled |-> TRUE]

\* hashlib.md5(f"{model}:{prompt}") names the file; the digest is taken to be
\* injective on the strings of the model.
get_cache_key(prompt, model) == model \o <<":">> \o prompt

\* str.encode('utf-8') succeeds: a lone surrogate cannot be encoded.
utf8_encodable(text) == \A k \in 1..Len(text) : text[k] # "<lone surrogate>"

\* The exception encode raises; like None, distinct from every text.
UnicodeEncodeError == <<"<UnicodeEncodeError>">>

PromptDebugLen == 200
SecondsPerHour == 3600

Truncate(text, n) == SubSeq(text, 1, IF Len(text) < n THEN Len(text) ELSE n)

\* The directory is a function from the keys of the cache_files it holds to
\* [content, mtime].
Restrict(cache_files, S) == [k \in S |-> cache_files[k]]

Expired(cache_files, k, current_time, max_age_hours) ==
    current_time - cache_files[k].mtime > max_age_hours * SecondsPerHour

\* list(self.cache_dir.glob("*.json")): the files, in an order the program
\* does not control.
glob(cache_files) ==
    {order \in [1..Cardinality(DOMAIN cache_files) -> DOMAIN cache_files] :
        \A a, b \in 1..Cardinality(DOMAIN cache_files) : a # b => order[a] # order[b]}

\* The sort without reverse=True: oldest first.
sort_oldest_first(cache_files) ==
    {order \in glob(cache_files) :
        \A a, b \in 1..Len(order) :
            a < b => cache_files[order[a]].mtime <= cache_files[order[b]].mtime}

\* cache_files.sort(key=st_mtime, reverse=True).  The sort is stable, so files
\* with equal st_mtime keep the order of glob: every order that is newest
\* first may come out.
sort_newest_first(cache_files) ==
    {order \in glob(cache_files) :
        \A a, b \in 1..Len(order) :
            a < b => cache_files[order[a]].mtime >= cache_files[order[b]].mtime}

\* The entries that may be left by the eviction of cache_files[max_entries:].
KeptSets(cache_files, max_entries) ==
    IF Cardinality(DOMAIN cache_files) > max_entries
    THEN {{order[k] : k \in 1..max_entries} : order \in sort_newest_first(cache_files)}
    ELSE {DOMAIN cache_files}

\* The directories _clean_expired_entries may leave.  After an eviction the
\* loop over cache_files meets the kept entries first and stops, with a logged
\* warning, at the first evicted one.
clean_expired_entries(cache_files, current_time, max_entries, max_age_hours) ==
    {Restrict(cache_files, {k \in S : ~Expired(cache_files, k, current_time, max_age_hours)}) :
        S \in KeptSets(cache_files, max_entries)}

CacheRecord(prompt, model, response, current_time) ==
    [content |-> [prompt |-> json_escape(Truncate(prompt, PromptDebugLen)),
                  model |-> json_escape(model),
                  response |-> json_escape(response),
                  timestamp |-> current_time],
     mtime |-> current_time]

\* The directory once set has written its file over the cleaned directory.  A
\* key that cannot be encoded raises inside the try of set: nothing is written.
cache_write(cleaned, current_time, prompt, model, response) ==
    IF utf8_encodable(get_cache_key(prompt, model))
    THEN (get_cache_key(prompt, model) :> CacheRecord(prompt, model, response, current_time))
            @@ cleaned
    ELSE cleaned

\* ResponseCache.set writing the file before the cleanup runs.
cache_set_write_first(cache_files, current_time, max_entries, max_age_hours, prompt, model, response) ==
    {[cleaned |-> cleaned, files |-> cleaned] :
        cleaned \in clean_expired_entries(
            cache_write(cache_files, current_time, prompt, model, response),
            current_time, max_entries, max_age_hours)}

\* What ResponseCache.set may do: the directory its cleanup leaves (cleaned)
\* and the directory it leaves after the write (files).
cache_set(cache_files, current_time, max_entries, max_age_hours, prompt, model, response) ==
    {[cleaned |-> cleaned,
      files |-> cache_write(cleaned, current_time, prompt, model, response)] :
        cleaned \in clean_expired_entries(cache_files, current_time, max_entries, max_age_hours)}

\* ResponseCache.get: the response, or None; the key is worked out before the
\* try, so that the exception of encode leaves get.
cache_get(cache_files, prompt, model) ==
    LET cache_key == get_cache_key(prompt, model)
    IN  IF ~utf8_encodable(cache_key) THEN UnicodeEncodeError
        ELSE IF cache_key \notin DOMAIN cache_files THEN None
        ELSE IF "response" \notin DOMAIN cache_files[cache_key].content THEN None
        ELSE json_unescape(cache_files[cache_key].content.response)

cache_clear(cache_files) == Restrict(cache_files, {})

\* The file as the operating system holds it while processes write to it: a
\* sequence of pieces.  json.dump(data, f) writes "{" (all that precedes the
\* text of the response), the escaped response piece by piece, and "}" (all
\* that follows it); for one prompt and model the first piece is the same in
\* every record.
json_dump(response) == <<"{">> \o json_escape(response) \o <<"}">>

\* write at the offset pos of a file descriptor: the pieces between the end of
\* the file and pos read as NUL.
write_at(content, pos, piece) ==
    [k \in 1..(IF Len(content) > pos THEN Len(content) ELSE pos + 1) |->
        IF k = pos + 1 THEN piece
        ELSE IF k <= Len(content) THEN content[k] ELSE "<NUL>"]

\* ResponseCache.get reading such a file: json.load raises on an empty or
\* unfinished document, on data after its end and on a control character in
\* a string, and get returns None.
cache_get_file(cache_files, prompt, model) ==
    LET cache_key == get_cache_key(prompt, model)
    IN  IF cache_key \notin DOMAIN cache_files THEN None
        ELSE LET content == cache_files[cache_key].content
             IN  IF /\ Len(content) >= 2
                    /\ content[1] = "{"
                    /\ content[Len(content)] = "}"
                    /\ \A k \in 2..(Len(content) - 1) :
                          content[k] \notin {"{", "}", "<NUL>"}
                 THEN json_unescape(SubSeq(content, 2, Len(content) - 1))
                 ELSE None

(***************************************************************************)
(* call_ollama_api: the generation gateway.                                *)
(***************************************************************************)
RECURSIVE Pow2(_)
Pow2(n) == IF n = 0 THEN 1 ELSE 2 * Pow2(n - 1)

RECURSIVE Sum(_)
Sum(s) == IF s = <<>> THEN 0 ELSE Head(s) + Sum(Tail(s))

\* What one requests.post brings back: an exception (timeout, request_error,
\* which includes the HTTP error of raise_for_status), a body that is not JSON
\* (undecodable), or a JSON body with its content (the response field, else
\* the text field, else the empty text).
Reply(status, content) == [status |-> status, content |-> content]

Succeeds(reply) == reply.status = "ok" /\ reply.content # <<>>

\* The test made after a failed attempt, with max_retries taken as one more.
attempts_remain_inclusive(attempt, max_retries) == attempt < max_retries

\* if attempt < max_retries - 1
attempts_remain(attempt, max_retries) == attempt < max_retries - 1

\* A sleep of retry_delay whatever the attempt.
backoff_constant(retry_delay, attempt) == retry_delay

\* time.sleep(retry_delay * (2 ** attempt))
backoff(retry_delay, attempt) == retry_delay * Pow2(attempt)

\* The outcomes of call_ollama_api when the service answers attempt k with
\* replies[k]: the value returned or the error raised, the number of requests
\* sent, the sleeps taken and the directory of the cache afterwards.  The clock
\* moves by the sleeps only; a request takes no time.
call_ollama_api(prompt, model, max_retries, retry_delay, use_cache, cache_object, cache_files, current_time, replies) ==
    LET caching == use_cache /\ cache_object # NoCache
        cached_response ==
            IF caching THEN cache_get(cache_files, prompt, model) ELSE None
        RECURSIVE attempts(_, _)
        attempts(attempt, sleeps) ==
            IF attempt >= max_retries
            THEN {[kind |-> "return", value |-> None, requests |-> attempt,
                   sleeps |-> sleeps, files |-> cache_files]}
            ELSE IF ~Succeeds(replies[attempt + 1])
            THEN IF attempts_remain(attempt, max_retries)
                 THEN attempts(attempt + 1,
                               Append(sleeps, backoff(retry_delay, attempt)))
                 ELSE {[kind |-> "raise", value |-> None, requests |-> attempt + 1,
                        sleeps |-> sleeps, files |-> cache_files]}
            ELSE LET content == strip(replies[attempt + 1].content)
                 IN  {[kind |-> "return", value |-> content,
                       requests |-> attempt + 1, sleeps |-> sleeps, files |-> f] :
                        f \in IF caching
                              THEN {written.files : written \in
                                        cache_set(cache_files, current_time + Sum(sleeps),
                                                  cache_object.max_entries,
                                                  cache_object.max_age_hours,
                                                  prompt, model, content)}
                              ELSE {cache_files}}
    IN  IF cached_response = UnicodeEncodeError
        THEN {[kind |-> "raise", value |-> UnicodeEncodeError, requests |-> 0,
               sleeps |-> <<>>, files |-> cache_files]}
        ELSE IF Truthy(cached_response)
        THEN {[kind |-> "return", value |-> cached_response, requests |-> 0,
               sleeps |-> <<>>, files |-> cache_files]}
        ELSE attempts(0, <<>>)

(***************************************************************************)
(* The steps of AIAgent.run between two requests to the generator.         *)
(***************************************************************************)
CRITIQUE_PROMPT(documentation_text) ==
    <<"<critique instructions>">> \o documentation_text \o <<"<critique below>">>

\* The refinement prompt without the critique to address.
REFINEMENT_PROMPT_without_critique(documentation_text, critique_text, file_summaries) ==
    <<"<refinement instructions>">> \o documentation_text
    \o <<"<code files summary>">> \o file_summaries
    \o <<"<refined documentation>">>

REFINEMENT_PROMPT(documentation_text, critique_text, file_summaries) ==
    <<"<refinement instructions>">> \o documentation_text
    \o <<"<critique to address>">> \o critique_text
    \o <<"<code files summary>">> \o file_summaries
    \o <<"<refined documentation>">>

\* re.sub on the fenced code blocks and the think blocks of the first draft.
RECURSIVE remove_blocks(_)
remove_blocks(doc) ==
    IF doc = <<>> THEN <<>>
    ELSE IF Head(doc) \in {"<fenced block>", "<think block>"}
    THEN remove_blocks(Tail(doc))
    ELSE <<Head(doc)>> \o remove_blocks(Tail(doc))

ShownIssues == 5

RECURSIVE SelectSeverity(_, _)
SelectSeverity(issues, severity) ==
    IF issues = <<>> THEN <<>>
    ELSE IF Head(issues).severity = severity
    THEN <<Head(issues)>> \o SelectSeverity(Tail(issues), severity)
    ELSE SelectSeverity(Tail(issues), severity)

IssueEntries(issues) ==
    [k \in 1..(IF Len(issues) < ShownIssues THEN Len(issues) ELSE ShownIssues) |->
        CASE issues[k].issue_type = "missing_element" -> "<missing_element entry>"
          [] issues[k].issue_type = "naming_inconsistency" -> "<naming_inconsistency entry>"
          [] OTHER -> "<undocumented_element entry>"]

enhance_critique_with_validation(llm_critique, validation_issues) ==
    LET errors == SelectSeverity(validation_issues, "error")
        warnings == SelectSeverity(validation_issues, "warning")
    IN  strip(llm_critique) \o <<"<semantic analysis>">>
        \o (IF validation_issues # <<>>
            THEN <<"<cross-validation results>">>
                 \o (IF errors # <<>>
                     THEN <<"<critical issues>">> \o IssueEntries(errors) ELSE <<>>)
                 \o (IF warnings # <<>>
                     THEN <<"<warnings>">> \o IssueEntries(warnings) ELSE <<>>)
            ELSE <<"<cross-validation results>", "<no validation issues>">>)

\* critique_documentation once the generator has answered.
critique_documentation(llm_critique, documentation_text, validator) ==
    enhance_critique_with_validation(
        llm_critique,
        IF validator # None
        THEN validate_documentation(validator, documentation_text) ELSE <<>>)

\* range(max_iterations) has a next value.
loop_continues_inclusive(index, iterations) == index <= iterations

loop_continues(index, iterations) == index < iterations

\* The step after the decision, when a positive decision does not break.
after_decision_no_break(positive) == "refine"

after_decision(positive) == IF positive THEN "save" ELSE "refine"

\* A metric numbered from 0.
append_metric_zero_based(metrics, index, doc) ==
    Append(metrics, [iteration |-> index, doc_length |-> Len(doc)])

append_metric(metrics, index, doc) ==
    Append(metrics, [iteration |-> index + 1, doc_length |-> Len(doc)])

(***************************************************************************)
(* Inputs of the calls on pure functions.                                  *)
(***************************************************************************)
MaxCritiqueLen == 3
MaxIssues == 3

Texts(vocabulary, n) == UNION {[1..k -> vocabulary] : k \in 0..n}

AnalyzerVocabulary ==
    {"clear", "unclear", "comprehensive", "incomplete", "missing", "robust",
     "Robust", "useful", "useless", "word", "<paragraph>", Blank}

ScoreValues == {R(k, 10) : k \in 0..10}

GivenScores ==
    {[overall_score |-> o, technical_accuracy |-> o, completeness |-> o,
      clarity |-> o, structure |-> o, usefulness |-> o, confidence |-> c] :
        o \in ScoreValues, c \in ScoreValues}

Severities == {"valid", "warning", "error", "missing"}

IssueLists ==
    {[k \in 1..Len(sevs) |-> [severity |-> sevs[k], issue_type |-> "given"]] :
        sevs \in Texts(Severities, MaxIssues)}

CalculatorIndex ==
    << [name |-> "calculate_sum", type |-> "function", file |-> "calc.py"],
       [name |-> "Calculator", type |-> "class", file |-> "calc.py"],
       [name |-> "_helper", type |-> "function", file |-> "calc.py"],
       [name |-> "os", type |-> "import", file |-> "calc.py"] >>

\* The index of a module of six public functions, more than one validation
\* reports.
ServiceIndex ==
    [k \in 1..6 |->
        [name |-> <<"load", "save", "parse", "render", "merge", "split">>[k],
         type |-> "function", file |-> "service.py"]]

\* The agent's documentation and validator when is_critique_positive is called:
\* before analyze_codebase there is no validator, before the first draft no
\* documentation.
AgentStates ==
    {[documentation |-> <<"nonExistentFunction()">>, validator |-> None]}
    \cup
    {[documentation |-> d, validator |-> CalculatorIndex] :
        d \in {None, <<>>,
               <<"calculate_sum()", "class", "Calculator">>,
               <<"calculate_sum()">>,
               <<"calculate_sum()", "calculator()">>,
               <<"calculate_sum()", "Calculator()", "nonExistentFunction()">>}}

Thresholds == {Zero, R(45, 100), R(8, 10)}

MaxDocumentationLen == 3
MaxMatches == 12

\* The tokens of the documentation handed to the validator.
ValidatorVocabulary ==
    {"calculate_sum()", "Calculator()", "calculator()", "nonExistentFunction()",
     "_helper()", "API()", "class", "Calculator", "calculator"}

DecisionVocabulary == {"no", "changes", "needed", "No", "robust", "<paragraph>"}

\* The requests made to the cache: two of them give the same f"{model}:{prompt}".
CacheRequests ==
    {[prompt |-> <<"p">>, model |-> <<"m">>],
     [prompt |-> <<"a", ":", "p">>, model |-> <<"m">>],
     [prompt |-> <<"p">>, model |-> <<"m", ":", "a">>]}

\* A prompt that holds a lone surrogate, as json.loads makes of the escape
\* \ud800 in an answer of the generator.
UnencodableRequests ==
    {[prompt |-> <<"<lone surrogate>">>, model |-> <<"m">>]}

CacheResponses ==
    {<<"r">>, <<"<quote>", "r", "<backslash>", "n", "<newline>">>}

MaxEntries == 2
MaxAgeHours == 1
MaxClockHours == 2

EmptyDir == <<>>

\* cache_dir when the ResponseCache is constructed: empty, or left by an
\* earlier process with an entry, with a file that is not JSON, or with two
\* entries written an hour apart.
InitialDirs ==
    {EmptyDir,
     get_cache_key(<<"p">>, <<"m">>) :> CacheRecord(<<"p">>, <<"m">>, <<"old">>, 0),
     get_cache_key(<<"p">>, <<"m">>) :> [content |-> Garbage, mtime |-> 0],
     (get_cache_key(<<"p">>, <<"m">>) :> CacheRecord(<<"p">>, <<"m">>, <<"old">>, 0))
        @@ (get_cache_key(<<"a", ":", "p">>, <<"m">>)
                :> CacheRecord(<<"a", ":", "p">>, <<"m">>, <<"older">>, -SecondsPerHour))}

MaxRetries == 2
MaxIterations == 3
NotReturned == -1

ModelName == <<"gpt-oss">>
FileSummaries == <<"<calc.py>">>

\* retry_delay = 0: the runs do not wait between two attempts.
AgentConfigs ==
    {[max_retries |-> r, retry_delay |-> 0, critique_threshold |-> t,
      enable_caching |-> c, cache_max_age_hours |-> 24, cache_max_entries |-> 1] :
        r \in 0..MaxRetries, t \in {R(45, 100), R(8, 10)}, c \in BOOLEAN}

DraftReplies ==
    {Reply("timeout", <<>>), Reply("ok", <<>>),
     Reply("ok", <<"calculate_sum()", "class", "Calculator">>),
     Reply("ok", <<"<fenced block>", "nonExistentFunction()">>)}

CritiqueReplies ==
    {Reply("timeout", <<>>),
     Reply("ok", <<"No", "changes", "needed">>),
     Reply("ok", <<"robust", "clear", "useful">>),
     Reply("ok", <<"missing">>)}

RefinementReplies ==
    {Reply("ok", <<>>),
     Reply("ok", <<"calculate_sum()", "class", "Calculator">>),
     Reply("ok", <<"calculate_sum()", "nonExistentFunction()">>),
     Reply("ok", <<Blank>>)}

\* The documents and the critiques an agent of the runs can hold.
RunDocuments ==
    {remove_blocks(reply.content) : reply \in {r \in DraftReplies : Succeeds(r)}}
    \cup {strip(reply.content) : reply \in {r \in RefinementReplies : Succeeds(r)}}

RunCritiques ==
    {strip(reply.content) : reply \in {r \in CritiqueReplies : Succeeds(r)}}

\* critique_documentation and is_critique_positive on them, worked out once:
\* the enhanced critique and the decision for each document, answer of the
\* generator and threshold.
Decisions ==
    UNION {{[documentation |-> d, initial_critique |-> c, critique_threshold |-> t,
             critique |-> e,
             positive |-> is_critique_positive(e, d, CalculatorIndex, t)] :
                e \in {critique_documentation(c, d, CalculatorIndex)}} :
        d \in RunDocuments, c \in RunCritiques,
        t \in {cfg.critique_threshold : cfg \in AgentConfigs}}

Decision(d, c, t) ==
    CHOOSE e \in Decisions : /\ e.documentation = d
                             /\ e.initial_critique = c
                             /\ e.critique_threshold = t

\* cache_dir when the agent is constructed: empty, or holding the critique an
\* earlier run got for a draft.
AgentDirs ==
    {EmptyDir,
     get_cache_key(CRITIQUE_PROMPT(<<"calculate_sum()", "class", "Calculator">>), ModelName)
        :> CacheRecord(CRITIQUE_PROMPT(<<"calculate_sum()", "class", "Calculator">>),
                       ModelName, <<"missing">>, 0)}

vars == <<call, files, now, cache, open_files, config, max_iterations, pc, i, documentation, initial_critique, critique, iteration_metrics, documentation_validator, loop_exit, output, exit_code, observed>>

cacheVars == <<files, now, cache, open_files>>

agentVars == <<config, max_iterations, pc, i, documentation, initial_critique, critique, iteration_metrics, documentation_validator, loop_exit, output, exit_code, observed>>

\* No agent has been constructed.
NoAgent ==
    /\ config = [none |-> TRUE]
    /\ max_iterations = 0
    /\ pc = "none"
    /\ i = 0
    /\ documentation = None
    /\ initial_critique = None
    /\ critique = None
    /\ iteration_metrics = <<>>
    /\ documentation_validator = None
    /\ loop_exit = "none"
    /\ output = None
    /\ exit_code = NotReturned
    /\ observed = [none |-> TRUE]

(***************************************************************************)
(* Calls on the pure functions, each made on a fresh analyzer or agent.    *)
(***************************************************************************)
CallAnalyze ==
    /\ call.op = "none"
    /\ \E c \in Texts(AnalyzerVocabulary, MaxCritiqueLen) :
        call' = [op |-> "analyze_critique_semantically", critique |-> c,
                 result |-> analyze_critique_semantically(c)]
    /\ UNCHANGED <<cacheVars, agentVars>>

CallCreateScore ==
    /\ call.op = "none"
    /\ \E sem \in GivenScores, issues \in IssueLists :
        call' = [op |-> "create_semantic_critique_score", semantic |-> sem,
                 issues |-> issues,
                 result |-> create_semantic_critique_score(sem, issues)]
    /\ UNCHANGED <<cacheVars, agentVars>>

CallIsCritiquePositive ==
    /\ call.op = "none"
    /\ \E c \in Texts(DecisionVocabulary, MaxCritiqueLen), a \in AgentStates,
          th \in Thresholds :
        call' = [op |-> "is_critique_positive", critique |-> c,
                 documentation |-> a.documentation, validator |-> a.validator,
                 threshold |-> th,
                 result |-> is_critique_positive(c, a.documentation, a.validator, th)]
    /\ UNCHANGED <<cacheVars, agentVars>>

\* _calculate_aspect_score on the match counts of one aspect.
CallAspectScore ==
    /\ call.op = "none"
    /\ \E positive_matches \in 0..MaxMatches, negative_matches \in 0..MaxMatches :
        call' = [op |-> "_calculate_aspect_score",
                 positive_matches |-> positive_matches,
                 negative_matches |-> negative_matches,
                 result |-> calculate_aspect_score(positive_matches, negative_matches)]
    /\ UNCHANGED <<cacheVars, agentVars>>

InitPure ==
    /\ call = [op |-> "none"]
    /\ files = EmptyDir
    /\ now = 0
    /\ open_files = <<>>
    /\ cache = NoCache
    /\ NoAgent

NextScore == CallAnalyze \/ CallCreateScore \/ CallAspectScore

SpecScore == InitPure /\ [][NextScore]_vars

NextDecide == CallIsCritiquePositive

SpecDecide == InitPure /\ [][NextDecide]_vars

\* DocumentationValidator(file_contents).validate_documentation(documentation),
\* for the calculator module, for the service module and for no file at all.
CallValidate ==
    /\ call.op = "none"
    /\ \E d \in Texts(ValidatorVocabulary, MaxDocumentationLen),
          code_elements \in {CalculatorIndex, ServiceIndex, <<>>} :
        call' = [op |-> "validate_documentation", documentation |-> d,
                 code_elements |-> code_elements,
                 documented_elements |-> extract_documented_elements(d),
                 result |-> validate_documentation(code_elements, d)]
    /\ UNCHANGED <<cacheVars, agentVars>>

SpecValidate == InitPure /\ [][CallValidate]_vars

(***************************************************************************)
(* One ResponseCache used by one process.                                  *)
(***************************************************************************)
\* The set the call before was, if it was one.
\* call.stored: the response last passed to set for each (prompt, model) since
\* the construction of the cache or its last clear.
PreviousSet == IF call.op = "set" THEN <<call.prompt, call.model, call.response>> ELSE <<>>

CacheSet ==
    /\ \E q \in CacheRequests, r \in CacheResponses :
        \E written \in cache_set(files, now, cache.max_entries, cache.max_age_hours,
                                 q.prompt, q.model, r) :
            /\ files' = written.files
            /\ call' = [op |-> "set", prompt |-> q.prompt, model |-> q.model,
                        response |-> r, before |-> files, cleaned |-> written.cleaned,
                        stored |-> (q :> r) @@ call.stored]
    /\ UNCHANGED <<now, cache, open_files, agentVars>>

CacheGet ==
    /\ \E q \in CacheRequests \cup UnencodableRequests :
        call' = [op |-> "get", prompt |-> q.prompt, model |-> q.model,
                 result |-> cache_get(files, q.prompt, q.model),
                 previous_set |-> PreviousSet, stored |-> call.stored]
    /\ UNCHANGED <<cacheVars, agentVars>>

CacheClear ==
    /\ files' = cache_clear(files)
    /\ call' = [op |-> "clear", stored |-> <<>>]
    /\ UNCHANGED <<now, cache, open_files, agentVars>>

\* An hour passes.
Tick ==
    /\ now < MaxClockHours * SecondsPerHour
    /\ now' = now + SecondsPerHour
    /\ call' = [op |-> "tick", stored |-> call.stored]
    /\ UNCHANGED <<files, cache, open_files, agentVars>>

InitCache ==
    /\ call = [op |-> "none", stored |-> <<>>]
    /\ files \in InitialDirs
    /\ now = 0
    /\ open_files = <<>>
    /\ cache \in {[max_age_hours |-> a, max_entries |-> e] :
                    a \in 0..MaxAgeHours, e \in 0..MaxEntries}
    /\ NoAgent

NextCache == CacheSet \/ CacheGet \/ CacheClear \/ Tick

SpecCache == InitCache /\ [][NextCache]_vars

\* A ResponseCache constructed on a directory that holds no file.
InitCacheFresh == InitCache /\ files = EmptyDir

SpecCacheFresh == InitCacheFresh /\ [][NextCache]_vars

(***************************************************************************)
(* One cache directory used by several processes at once: two of them call *)
(* set for one prompt and model, a third calls get.  Nothing orders the    *)
(* steps of one process relative to those of another.                      *)
(***************************************************************************)
\* call.passed: the responses passed to the sets begun so far.
\* set up to open(cache_path, 'w'): the cleanup, then the file is created or
\* emptied.
SetOpen ==
    /\ \E w \in DOMAIN open_files, r \in {<<"a", "a">>, <<"b", "b">>, <<"c">>} :
        /\ open_files[w].data = <<>>
        /\ \E cleaned \in clean_expired_entries(files, now, cache.max_entries,
                                                 cache.max_age_hours) :
            files' = (get_cache_key(<<"p">>, <<"m">>) :> [content |-> <<>>, mtime |-> now])
                        @@ cleaned
        /\ open_files' = [open_files EXCEPT ![w] = [data |-> json_dump(r), pos |-> 0]]
        /\ call' = [call EXCEPT !.passed = @ \cup {r}]
    /\ UNCHANGED <<now, cache, agentVars>>

\* The next piece of json.dump reaches the file; after the last one the file
\* is closed and set returns.
SetWrite ==
    /\ \E w \in DOMAIN open_files :
        /\ open_files[w].data # <<>>
        /\ \E cache_key \in {get_cache_key(<<"p">>, <<"m">>)}, pos \in {open_files[w].pos} :
            /\ files' = [files EXCEPT ![cache_key] =
                            [content |-> write_at(@.content, pos, open_files[w].data[pos + 1]),
                             mtime |-> now]]
            /\ open_files' = [open_files EXCEPT ![w] =
                                IF pos + 1 = Len(@.data)
                                THEN [data |-> <<>>, pos |-> 0]
                                ELSE [data |-> @.data, pos |-> pos + 1]]
    /\ UNCHANGED <<call, now, cache, agentVars>>

SharedGet ==
    /\ call' = [op |-> "get", passed |-> call.passed,
                result |-> cache_get_file(files, <<"p">>, <<"m">>)]
    /\ UNCHANGED <<cacheVars, agentVars>>

InitShared ==
    /\ call = [op |-> "none", passed |-> {}]
    /\ files = EmptyDir
    /\ now = 0
    /\ cache \in {[max_age_hours |-> 1, max_entries |-> e] : e \in 1..MaxEntries}
    /\ open_files = [w \in 1..2 |-> [data |-> <<>>, pos |-> 0]]
    /\ NoAgent

NextShared == SetOpen \/ SetWrite \/ SharedGet

SpecShared == InitShared /\ [][NextShared]_vars

(***************************************************************************)
(* call_ollama_api called twice in a row by one process on one cache.      *)
(***************************************************************************)
MaxGatewayRetries == 3
MaxGatewayClock == 6

RetryDelays == {1, 2}

GatewayPrompts == {<<"p">>, <<"q">>}

\* What requests.post can bring back: the failures of an attempt, and the
\* contents of an answer that is taken (one of them is whitespace only).
FailedReplies ==
    {Reply("timeout", <<>>), Reply("request_error", <<>>),
     Reply("undecodable", <<>>), Reply("ok", <<>>)}

TakenReplies == {Reply("ok", <<Blank, "r", Blank>>), Reply("ok", <<Blank>>)}

\* The answers of the service to the attempts of one call: failures of one
\* kind, then answers that are taken.
ReplyScripts(max_retries) ==
    {[k \in 1..max_retries |-> IF k <= failures THEN failed ELSE taken] :
        failures \in 0..max_retries, failed \in FailedReplies, taken \in TakenReplies}

\* cache_dir at the first call: empty, or holding the answer an earlier
\* process got for the prompt p.
GatewayDirs ==
    {EmptyDir,
     get_cache_key(<<"p">>, ModelName) :> CacheRecord(<<"p">>, ModelName, <<"old">>, 0)}

\* call.first: the call was the first of the two.
CallOllamaApi ==
    /\ IF call.op = "none" THEN TRUE ELSE call.first
    /\ \E prompt \in GatewayPrompts, max_retries \in 0..MaxGatewayRetries,
          retry_delay \in RetryDelays, use_cache \in BOOLEAN :
        \E replies \in ReplyScripts(max_retries) :
            \E r \in call_ollama_api(prompt, ModelName, max_retries, retry_delay,
                                     use_cache, cache, files, now, replies) :
                /\ now + Sum(r.sleeps) <= MaxGatewayClock
                /\ now' = now + Sum(r.sleeps)
                /\ files' = r.files
                /\ call' = [op |-> "call_ollama_api", prompt |-> prompt,
                            model |-> ModelName, max_retries |-> max_retries,
                            retry_delay |-> retry_delay, use_cache |-> use_cache,
                            replies |-> replies, kind |-> r.kind, value |-> r.value,
                            requests |-> r.requests, sleeps |-> r.sleeps,
                            first |-> call.op = "none"]
    /\ UNCHANGED <<cache, open_files, agentVars>>

InitGateway ==
    /\ call = [op |-> "none"]
    /\ files \in GatewayDirs
    /\ now = 0
    /\ open_files = <<>>
    /\ cache \in {NoCache, [max_age_hours |-> 1, max_entries |-> 1]}
    /\ NoAgent

NextGateway == CallOllamaApi

SpecGateway == InitGateway /\ [][NextGateway]_vars

(***************************************************************************)
(* AIAgent.run: one agent, one run.  A step goes from one request to the   *)
(* generator to the next.                                                  *)
(***************************************************************************)
\* The record of a step that raised, in what has been observed so far.
Raised(seen, step) ==
    [seen EXCEPT !.failure = step,
                 !.calls_at_failure = seen.critique_calls + seen.refine_calls]

\* The handler of run that lets the error pass and goes on to save.
except_exception_saving ==
    /\ pc' = "save"
    /\ exit_code' = exit_code

\* except Exception: return 1
except_exception ==
    /\ pc' = "failed"
    /\ exit_code' = 1

\* The content written when the draft critiqued last is saved instead.
content_critiqued == observed.critiqued

\* The content save_documentation writes (markdown format).
content_to_save == documentation

\* validate_inputs and analyze_codebase: the directory holds readable code
\* files, or the analysis raises.
AnalyzeCodebase ==
    /\ pc = "start"
    /\ \E readable \in BOOLEAN :
        IF readable
        THEN /\ documentation_validator' = CalculatorIndex
             /\ pc' = "draft"
             /\ UNCHANGED <<exit_code, observed>>
        ELSE /\ except_exception
             /\ observed' = Raised(observed, "analysis")
             /\ UNCHANGED documentation_validator
    /\ UNCHANGED <<call, cacheVars, config, max_iterations, i, documentation, initial_critique, critique, iteration_metrics, loop_exit, output>>

\* generate_documentation_draft: one request, sent without the gateway.
GenerateDraft ==
    /\ pc = "draft"
    /\ \E reply \in DraftReplies :
        IF Succeeds(reply)
        THEN /\ documentation' = remove_blocks(reply.content)
             /\ observed' = [observed EXCEPT !.draft = remove_blocks(reply.content)]
             /\ IF loop_continues(0, max_iterations)
                THEN pc' = "critique" /\ UNCHANGED loop_exit
                ELSE pc' = "save" /\ loop_exit' = "else"
             /\ UNCHANGED exit_code
        ELSE /\ except_exception
             /\ observed' = Raised(observed, "draft")
             /\ UNCHANGED <<documentation, loop_exit>>
    /\ UNCHANGED <<call, cacheVars, config, max_iterations, i, initial_critique, critique, iteration_metrics, documentation_validator, output>>

\* critique_documentation of iteration i + 1, up to the answer of the gateway.
RequestCritique ==
    /\ pc = "critique"
    /\ \E replies \in [1..config.max_retries -> CritiqueReplies] :
        \E r \in call_ollama_api(CRITIQUE_PROMPT(documentation), ModelName,
                                 config.max_retries, config.retry_delay,
                                 config.enable_caching, cache, files, now, replies) :
            LET asked == [observed EXCEPT !.critique_calls = @ + 1,
                                          !.critiqued = documentation]
            IN  /\ files' = r.files
                /\ now' = now + Sum(r.sleeps)
                /\ IF r.kind = "raise"
                   THEN /\ except_exception
                        /\ observed' = Raised(asked, "critique")
                        /\ UNCHANGED initial_critique
                   ELSE /\ initial_critique' = r.value
                        /\ pc' = "decide"
                        /\ observed' = asked
                        /\ UNCHANGED exit_code
    /\ UNCHANGED <<call, cache, open_files, config, max_iterations, i, documentation, critique, iteration_metrics, documentation_validator, loop_exit, output>>

\* The rest of critique_documentation, and is_critique_positive on its result.
DecideOnCritique ==
    /\ pc = "decide"
    /\ IF initial_critique = None
       THEN \* None.lower() raises
            /\ except_exception
            /\ observed' = Raised(observed, "critique is None")
            /\ UNCHANGED <<critique, loop_exit>>
       ELSE \E decided \in {Decision(documentation, initial_critique,
                                      config.critique_threshold)} :
                /\ critique' = decided.critique
                /\ observed' = [observed EXCEPT
                        !.decision = IF decided.positive THEN "positive" ELSE "negative"]
                /\ pc' = after_decision(decided.positive)
                /\ loop_exit' = IF after_decision(decided.positive) = "save"
                                THEN "break" ELSE loop_exit
                /\ UNCHANGED exit_code
    /\ UNCHANGED <<call, cacheVars, config, max_iterations, i, documentation, initial_critique, iteration_metrics, documentation_validator, output>>

\* refine_documentation of iteration i + 1, the metric and the next value of i.
Refine ==
    /\ pc = "refine"
    /\ \E replies \in [1..config.max_retries -> RefinementReplies] :
        \E r \in call_ollama_api(REFINEMENT_PROMPT(documentation, critique, FileSummaries),
                                 ModelName, config.max_retries, config.retry_delay,
                                 config.enable_caching, cache, files, now, replies) :
            LET asked == [observed EXCEPT !.refine_calls = @ + 1]
            IN  /\ files' = r.files
                /\ now' = now + Sum(r.sleeps)
                /\ IF r.kind = "raise"
                   THEN /\ except_exception
                        /\ observed' = Raised(asked, "refine")
                        /\ UNCHANGED <<documentation, iteration_metrics, i, loop_exit>>
                   ELSE IF r.value = None
                   THEN \* len(None) raises
                        /\ documentation' = None
                        /\ except_exception
                        /\ observed' = Raised(asked, "refinement is None")
                        /\ UNCHANGED <<iteration_metrics, i, loop_exit>>
                   ELSE /\ documentation' = r.value
                        /\ iteration_metrics' = append_metric(iteration_metrics, i, r.value)
                        /\ observed' = [asked EXCEPT !.refinements = Append(@, r.value)]
                        /\ IF loop_continues(i + 1, max_iterations)
                           THEN /\ i' = i + 1
                                /\ pc' = "critique"
                                /\ UNCHANGED loop_exit
                           ELSE /\ pc' = "save"
                                /\ loop_exit' = "else"
                                /\ UNCHANGED i
                        /\ UNCHANGED exit_code
    /\ UNCHANGED <<call, cache, open_files, config, max_iterations, initial_critique, critique, documentation_validator, output>>

\* save_documentation and return 0.
Save ==
    /\ pc = "save"
    /\ IF documentation = None
       THEN /\ except_exception
            /\ observed' = Raised(observed, "save")
            /\ UNCHANGED output
       ELSE /\ output' = content_to_save
            /\ exit_code' = 0
            /\ pc' = "done"
            /\ UNCHANGED observed
    /\ UNCHANGED <<call, cacheVars, config, max_iterations, i, documentation, initial_critique, critique, iteration_metrics, documentation_validator, loop_exit>>

InitRun ==
    /\ call = [op |-> "none"]
    /\ config \in AgentConfigs
    /\ cache = IF config.enable_caching
               THEN [max_age_hours |-> config.cache_max_age_hours,
                     max_entries |-> config.cache_max_entries]
               ELSE NoCache
    /\ files \in IF config.enable_caching THEN AgentDirs ELSE {EmptyDir}
    /\ now = 0
    /\ open_files = <<>>
    /\ max_iterations \in 0..MaxIterations
    /\ pc = "start"
    /\ i = 0
    /\ documentation = None
    /\ initial_critique = None
    /\ critique = None
    /\ iteration_metrics = <<>>
    /\ documentation_validator = None
    /\ loop_exit = "none"
    /\ output = None
    /\ exit_code = NotReturned
    /\ observed = [critique_calls |-> 0, refine_calls |-> 0, critiqued |-> None,
                   decision |-> "none", draft |-> None, refinements |-> <<>>,
                   failure |-> "none", calls_at_failure |-> 0]

NextRun ==
    AnalyzeCodebase \/ GenerateDraft \/ RequestCritique \/ DecideOnCritique
    \/ Refine \/ Save

SpecRun == InitRun /\ [][NextRun]_vars

\* Every request returns or times out, so the step that waits for it is taken.
FairSpecRun == SpecRun /\ WF_vars(NextRun)

(***************************************************************************)
(* The LangGraph workflow of langgraph_agent.py: the graph of build_graph   *)
(* invoked by main.  The nodes call the methods of the AIAgent held in the  *)
(* graph state; documentation, critique and i are the fields documentation, *)
(* critique and iteration of the graph state.  The agent's own              *)
(* self.documentation stays None until the graph has ended.  An error      *)
(* raised in a node is not caught: the process ends with status 1.         *)
(***************************************************************************)
\* The node generate_draft; its edge leads to critique_document.
GraphGenerateDraft ==
    /\ pc = "draft"
    /\ \E reply \in DraftReplies :
        IF Succeeds(reply)
        THEN /\ documentation' = remove_blocks(reply.content)
             /\ observed' = [observed EXCEPT !.draft = remove_blocks(reply.content)]
             /\ pc' = "critique"
             /\ UNCHANGED exit_code
        ELSE /\ except_exception
             /\ observed' = Raised(observed, "draft")
             /\ UNCHANGED documentation
    /\ UNCHANGED <<call, cacheVars, config, max_iterations, i, initial_critique, critique, iteration_metrics, documentation_validator, loop_exit, output>>

\* The rest of the node critique_document, then the conditional edge
\* should_continue: is_critique_positive is asked on the agent, whose
\* self.documentation is None.
GraphShouldContinue ==
    /\ pc = "decide"
    /\ IF initial_critique = None
       THEN \* None.lower() raises
            /\ except_exception
            /\ observed' = Raised(observed, "critique is None")
            /\ UNCHANGED <<critique, loop_exit>>
       ELSE \E enhanced \in {Decision(documentation, initial_critique,
                                       config.critique_threshold).critique} :
                /\ critique' = enhanced
                /\ UNCHANGED exit_code
                /\ IF i >= max_iterations
                   THEN /\ pc' = "save"
                        /\ loop_exit' = "else"
                        /\ observed' = [observed EXCEPT !.decision = "none"]
                   ELSE \E positive \in {is_critique_positive(enhanced, None,
                                               documentation_validator,
                                               config.critique_threshold)} :
                            /\ pc' = after_decision(positive)
                            /\ loop_exit' = IF positive THEN "break" ELSE loop_exit
                            /\ observed' = [observed EXCEPT !.decision =
                                    IF positive THEN "positive" ELSE "negative"]
    /\ UNCHANGED <<call, cacheVars, config, max_iterations, i, documentation, initial_critique, iteration_metrics, documentation_validator, output>>

\* The node refine_document; its edge leads back to critique_document.
GraphRefine ==
    /\ pc = "refine"
    /\ \E replies \in [1..config.max_retries -> RefinementReplies] :
        \E r \in call_ollama_api(REFINEMENT_PROMPT(documentation, critique, FileSummaries),
                                 ModelName, config.max_retries, config.retry_delay,
                                 config.enable_caching, cache, files, now, replies) :
            LET asked == [observed EXCEPT !.refine_calls = @ + 1]
            IN  /\ files' = r.files
                /\ now' = now + Sum(r.sleeps)
                /\ IF r.kind = "raise"
                   THEN /\ except_exception
                        /\ observed' = Raised(asked, "refine")
                        /\ UNCHANGED <<documentation, i>>
                   ELSE /\ documentation' = r.value
                        /\ i' = i + 1
                        /\ observed' = [asked EXCEPT !.refinements = Append(@, r.value)]
                        /\ pc' = "critique"
                        /\ UNCHANGED exit_code
    /\ UNCHANGED <<call, cache, open_files, config, max_iterations, initial_critique, critique, iteration_metrics, documentation_validator, loop_exit, output>>

\* main once app.invoke has returned: the final documentation is saved if it
\* is a non-empty text.
GraphFinish ==
    /\ pc = "save"
    /\ IF Truthy(documentation)
       THEN /\ output' = content_to_save
            /\ exit_code' = 0
            /\ pc' = "done"
            /\ UNCHANGED observed
       ELSE /\ except_exception
            /\ observed' = Raised(observed, "save")
            /\ UNCHANGED output
    /\ UNCHANGED <<call, cacheVars, config, max_iterations, i, documentation, initial_critique, critique, iteration_metrics, documentation_validator, loop_exit>>

\* analyze_codebase and critique_document call the methods run calls.
NextGraph ==
    AnalyzeCodebase \/ GraphGenerateDraft \/ RequestCritique \/ GraphShouldContinue
    \/ GraphRefine \/ GraphFinish

SpecGraph == InitRun /\ [][NextGraph]_vars

(***************************************************************************)
(* Properties of the scorer, the combiner and the decision.                *)
(***************************************************************************)
REq(a, b) == a[1] * b[2] = b[1] * a[2]
Clamp01(x) == IF RLt(x, Zero) THEN Zero ELSE IF RLt(One, x) THEN One ELSE x

RECURSIVE NumberOf(_, _)
NumberOf(issues, sev) ==
    IF issues = <<>> THEN 0
    ELSE (IF Head(issues).severity = sev THEN 1 ELSE 0) + NumberOf(Tail(issues), sev)

\* (overall_score - 0.2*errorCount - 0.1*warningCount) * confidence
PenalisedScore(sem, issues) ==
    RMul(R(10 * sem.overall_score[1]
             - (2 * NumberOf(issues, "error") + NumberOf(issues, "warning"))
               * sem.overall_score[2],
           10 * sem.overall_score[2]),
         sem.confidence)

\* C8: create_semantic_critique_score returns
\* clamp((overall_score - 0.2*errorCount - 0.1*warningCount) * confidence, 0, 1)
\* for every semantic score and every list of issues, so the result lies in
\* [0, 1]; for overall_score 0.8, confidence 0.8, one Error and no Warning it
\* is 0.48.
C8_CombinedScore ==
    call.op = "create_semantic_critique_score" =>
        /\ REq(call.result, Clamp01(PenalisedScore(call.semantic, call.issues)))
        /\ InUnit(call.result)
        /\ ( /\ call.semantic.overall_score = R(8, 10)
             /\ call.semantic.confidence = R(8, 10)
             /\ NumberOf(call.issues, "error") = 1
             /\ NumberOf(call.issues, "warning") = 0
             => call.result = R(48, 100) )

C8_Witness ==
    /\ call.op = "create_semantic_critique_score"
    /\ call.semantic.overall_score = R(8, 10)
    /\ call.semantic.confidence = R(8, 10)
    /\ call.issues = << [severity |-> "error", issue_type |-> "given"] >>
    /\ call.result = R(12, 25)

\* C9: for every critique text the SemanticScore returned by
\* analyze_critique_semantically has its five aspect scores and its confidence
\* in [0, 1], and overall_score is the arithmetic mean of the five aspect
\* scores.
C9_SemanticScoreRange ==
    call.op = "analyze_critique_semantically" =>
        LET r == call.result
        IN  /\ InUnit(r.technical_accuracy)
            /\ InUnit(r.completeness)
            /\ InUnit(r.clarity)
            /\ InUnit(r.structure)
            /\ InUnit(r.usefulness)
            /\ InUnit(r.confidence)
            /\ REq(RMul(r.overall_score, RInt(5)),
                   RAdd(r.technical_accuracy,
                        RAdd(r.completeness,
                             RAdd(r.clarity, RAdd(r.structure, r.usefulness)))))

\* A critique whose technical accuracy has negative matches only (the raw
\* value -0.1 is clamped to 0) and whose clarity has matches of both signs.
C9_Witness ==
    /\ call.op = "analyze_critique_semantically"
    /\ call.critique = <<"unclear">>
    /\ call.result.technical_accuracy = Zero
    /\ call.result.clarity = R(9, 20)
    /\ call.result.overall_score = R(39, 100)
    /\ call.result.confidence = R(16, 100)

\* C6: for any critique whose lower-cased text contains one of the explicit
\* positive phrases, is_critique_positive returns true whatever the validator
\* reports for the current draft (Error issues included) and whatever the
\* semantic score is.
C6_ExplicitPhraseAccepted ==
    (call.op = "is_critique_positive" /\ HasExplicitPositive(call.critique))
        => call.result = TRUE

\* The phrase in mixed case, a draft with an Error, and a final score below
\* the default threshold.
C6_Witness ==
    /\ call.op = "is_critique_positive"
    /\ call.critique = <<"No", "changes", "needed">>
    /\ call.validator # None
    /\ NumberOf(validate_documentation(call.validator, call.documentation), "error") >= 1
    /\ call.threshold = R(8, 10)
    /\ RLt(create_semantic_critique_score(analyze_critique_semantically(call.critique),
               validate_documentation(call.validator, call.documentation)),
           call.threshold)
    /\ call.result = TRUE

\* C7: for a critique with no explicit positive phrase the decision is positive
\* iff final_score >= critique_threshold and the validator reported no Error
\* for the current draft; a draft with at least one Error is never accepted
\* through the scoring path, even at threshold 0.
C7_ScoringPathDecision ==
    (call.op = "is_critique_positive" /\ ~HasExplicitPositive(call.critique)) =>
        LET reported == IssuesFor(call.documentation, call.validator)
            final_score == Clamp01(PenalisedScore(
                               analyze_critique_semantically(call.critique), reported))
        IN  /\ call.result = TRUE <=>
                  (RLe(call.threshold, final_score) /\ NumberOf(reported, "error") = 0)
            /\ ( /\ call.validator # None
                 /\ call.documentation # None
                 /\ NumberOf(validate_documentation(call.validator, call.documentation),
                             "error") >= 1
                 => call.result = FALSE )

\* Threshold 0 and a draft with an Error: the score test passes, the decision
\* is negative.
C7_Witness ==
    /\ call.op = "is_critique_positive"
    /\ ~HasExplicitPositive(call.critique)
    /\ call.threshold = Zero
    /\ call.validator # None
    /\ call.documentation # None
    /\ NumberOf(validate_documentation(call.validator, call.documentation), "error") = 1
    /\ call.result = FALSE

C11_EntriesWithinLimit == Cardinality(DOMAIN files) <= cache.max_entries

\* C12 (as claimed): get returns a response only for an entry that is found
\* and is not older than max_age_hours at the time of the get.
C12_NoExpiredResponse ==
    (call.op = "get" /\ call.result \notin {None, UnicodeEncodeError})
    => /\ get_cache_key(call.prompt, call.model) \in DOMAIN files
       /\ ~Expired(files, get_cache_key(call.prompt, call.model), now,
                   cache.max_age_hours)

\* The entries of the directory before the last set that its cleanup removed.
Removed == (DOMAIN call.before) \ (DOMAIN call.cleaned)

\* C13: when the cleanup of a set runs on a directory of more than max_entries
\* entries, at most max_entries of them are left by the cleanup, the entries
\* left are entries the directory held, unchanged, and no entry left was
\* modified earlier than an entry that was removed (for the limit, or for its
\* age: an entry removed for its age is older than every entry left).
C13_NewestRetained ==
    (call.op = "set" /\ Cardinality(DOMAIN call.before) > cache.max_entries)
    => /\ Cardinality(DOMAIN call.cleaned) <= cache.max_entries
       /\ DOMAIN call.cleaned \subseteq DOMAIN call.before
       /\ \A kept \in DOMAIN call.cleaned :
            /\ call.cleaned[kept] = call.before[kept]
            /\ \A evicted \in Removed :
                    call.before[kept].mtime >= call.before[evicted].mtime

\* Two entries an hour apart, neither too old, in a cache of max_entries = 1:
\* the cleanup of the next set removes the older one and leaves the newer.
C13_Witness ==
    /\ call.op = "set"
    /\ cache.max_entries = 1
    /\ cache.max_age_hours = 1
    /\ Cardinality(DOMAIN call.before) = 2
    /\ Cardinality(DOMAIN call.cleaned) = 1
    /\ \E kept \in DOMAIN call.cleaned, evicted \in Removed :
            /\ call.before[kept].mtime > call.before[evicted].mtime
            /\ ~Expired(call.before, evicted, now, cache.max_age_hours)

\* C14 (as claimed): no exception leaves get; get returns a miss when the
\* file of the entry is absent or cannot be decoded.  (set returns normally in
\* every case: all of its body is inside its try.)
C14_CacheFaultsNeverPropagate ==
    call.op = "get"
    => /\ call.result # UnicodeEncodeError
       /\ (\/ get_cache_key(call.prompt, call.model) \notin DOMAIN files
           \/ files[get_cache_key(call.prompt, call.model)].content = Garbage)
          => call.result = None

\* C15 (as claimed): on a cache whose directory was empty at first, a get for
\* a pair that set was never given is a miss, and, when the pairs given to set
\* are no more than max_entries and no time has passed, a get for a pair that
\* was given to set returns the response last set for that very pair.
C15_NoCollision ==
    (call.op = "get" /\ call.result # UnicodeEncodeError)
    => LET pair == [prompt |-> call.prompt, model |-> call.model]
       IN  IF pair \notin DOMAIN call.stored
           THEN call.result = None
           ELSE (Cardinality(DOMAIN call.stored) <= cache.max_entries /\ now = 0)
                => call.result = call.stored[pair]

(***************************************************************************)
(* Properties of the generation gateway.                                   *)
(***************************************************************************)
\* C16 (as claimed): a call made with caching enabled while the cache holds an
\* entry for its prompt and model returns the response of that entry, sends
\* no request and does not sleep.
C16_HitShortCircuits ==
    [][(/\ call'.op = "call_ollama_api"
        /\ call'.use_cache
        /\ cache # NoCache
        /\ get_cache_key(call'.prompt, call'.model) \in DOMAIN files
        /\ files[get_cache_key(call'.prompt, call'.model)].content # Garbage)
       => /\ call'.kind = "return"
          /\ call'.value = json_unescape(
                files[get_cache_key(call'.prompt, call'.model)].content.response)
          /\ call'.requests = 0
          /\ call'.sleeps = <<>>]_vars

\* An attempt that failed, as C17 lists the failures.
FailedAttempt(reply) ==
    \/ reply.status \in {"timeout", "undecodable", "request_error"}
    \/ reply.status = "ok" /\ reply.content = <<>>

\* The call was answered from the cache.
CacheHit == call.requests = 0 /\ call.kind = "return" /\ call.value # None

\* C17: a call that misses the cache sends at most max_retries requests; every
\* request but the last one got a failed attempt (a retry follows a failure
\* only); the call stops before max_retries requests only on an attempt that
\* did not fail; and when the last allowed attempt fails the call raises.
C17_BoundedRetries ==
    (call.op = "call_ollama_api" /\ ~CacheHit)
    => /\ call.requests <= call.max_retries
       /\ \A k \in 1..(call.requests - 1) : FailedAttempt(call.replies[k])
       /\ call.requests < call.max_retries
            => call.requests >= 1 /\ ~FailedAttempt(call.replies[call.requests])
       /\ (call.requests >= 1 /\ ~FailedAttempt(call.replies[call.requests]))
            => call.kind = "return"
       /\ (/\ call.max_retries >= 1
           /\ call.requests = call.max_retries
           /\ FailedAttempt(call.replies[call.max_retries]))
            => call.kind = "raise"

\* Three undecodable answers with max_retries = 3: three requests, then the
\* error.
C17_Witness ==
    /\ call.op = "call_ollama_api"
    /\ call.max_retries = 3
    /\ call.requests = 3
    /\ \A k \in 1..3 : call.replies[k].status = "undecodable"
    /\ call.kind = "raise"
    /\ Len(call.sleeps) = 2

\* C18: a call that sent n requests slept n - 1 times, once between two
\* consecutive attempts and not after the last one, and the sleep after the
\* failed attempt number k (from 0) lasted retry_delay * 2^k.
C18_ExponentialBackoff ==
    call.op = "call_ollama_api"
    => /\ Len(call.sleeps) = (IF call.requests = 0 THEN 0 ELSE call.requests - 1)
       /\ \A k \in 0..(Len(call.sleeps) - 1) :
            /\ FailedAttempt(call.replies[k + 1])
            /\ call.sleeps[k + 1] = call.retry_delay * (2 ^ k)

\* retry_delay = 2, max_retries = 3, two timeouts then an answer: sleeps of 2
\* and 4 seconds, and the clock has moved by 6 seconds.
C18_Witness ==
    /\ call.op = "call_ollama_api"
    /\ call.first
    /\ call.retry_delay = 2
    /\ call.max_retries = 3
    /\ call.replies[1].status = "timeout"
    /\ call.replies[2].status = "timeout"
    /\ call.kind = "return"
    /\ call.value = <<"r">>
    /\ call.requests = 3
    /\ call.sleeps = <<2, 4>>
    /\ now = 6

\* C19 (as claimed): a call with caching enabled that returned a text has
\* stored that text, and the call that follows it at once with the same
\* prompt, the same model and caching enabled returns the same text and sends
\* no request.
C19_RepeatedCallIsCached ==
    [][(/\ call.op = "call_ollama_api"
        /\ call.kind = "return"
        /\ call.value # None
        /\ call.use_cache
        /\ cache # NoCache
        /\ call'.op = "call_ollama_api"
        /\ call'.prompt = call.prompt
        /\ call'.model = call.model
        /\ call'.use_cache)
       => /\ cache_get(files, call.prompt, call.model) = call.value
          /\ call'.kind = "return"
          /\ call'.value = call.value
          /\ call'.requests = 0]_vars

(***************************************************************************)
(* Properties of AIAgent.run.                                              *)
(***************************************************************************)
Terminated == pc \in {"done", "failed"}

Outcome ==
    CASE pc = "failed" -> "Failed"
      [] pc = "done" /\ loop_exit = "break" -> "Accepted"
      [] pc = "done" /\ loop_exit = "else" -> "Exhausted"
      [] OTHER -> "Running"

LastRefinement == observed.refinements[Len(observed.refinements)]

\* C1: once the decision on the critique of iteration i is positive the loop
\* is left at once: the only step left is the save, no refinement is asked for
\* after the decision (i - 1 refinements for i critiques), the document of the
\* agent is the draft that was critiqued at iteration i, and that draft is
\* what gets saved.
C1_AcceptedDraftSaved ==
    observed.decision = "positive" =>
        /\ pc \in {"save", "done"}
        /\ loop_exit = "break"
        /\ observed.critique_calls \in 1..max_iterations
        /\ observed.refine_calls = observed.critique_calls - 1
        /\ documentation = observed.critiqued
        /\ pc = "done" => output = observed.critiqued /\ exit_code = 0

\* Accepted at iteration 3 of 3 after two refinements: the saved document is
\* the second refinement, which differs from the first draft.
C1_Witness ==
    /\ Outcome = "Accepted"
    /\ observed.critique_calls = 3
    /\ observed.refine_calls = 2
    /\ output = LastRefinement
    /\ output # observed.draft
    /\ output = observed.critiqued

\* C2: when the draft was obtained, every one of the max_iterations critiques
\* got a negative decision and every refinement returned, the run leaves the
\* loop by its else branch and goes on to save: it never fails, and it ends
\* with exit code 0 having saved the last refinement, or the first draft when
\* max_iterations = 0.
C2_ExhaustionIsSuccess ==
    (/\ observed.draft # None
     /\ observed.failure = "none"
     /\ observed.decision # "positive"
     /\ observed.critique_calls = max_iterations
     /\ observed.refine_calls = max_iterations)
    => /\ pc \in {"save", "done"}
       /\ loop_exit = "else"
       /\ exit_code # 1
       /\ pc = "done" =>
            /\ Outcome = "Exhausted"
            /\ exit_code = 0
            /\ output = IF max_iterations = 0 THEN observed.draft ELSE LastRefinement

\* Three critiques, all negative, three refinements: exit code 0 and the third
\* refinement saved, which is not the draft critiqued last.
C2_Witness ==
    /\ Outcome = "Exhausted"
    /\ max_iterations = 3
    /\ observed.critique_calls = 3
    /\ observed.decision = "negative"
    /\ exit_code = 0
    /\ output = LastRefinement
    /\ output # observed.critiqued

\* C3: the metrics log holds one record per refinement that returned a draft,
\* in order, record k numbered k with the length of the k-th refined draft;
\* hence i - 1 records when the run is accepted at iteration i, and
\* max_iterations records when the budget is exhausted.
C3_MetricPerRefinement ==
    /\ Len(iteration_metrics) = Len(observed.refinements)
    /\ \A k \in 1..Len(iteration_metrics) :
        /\ iteration_metrics[k].iteration = k
        /\ iteration_metrics[k].doc_length = Len(observed.refinements[k])
    /\ observed.decision = "positive" =>
            Len(iteration_metrics) = observed.critique_calls - 1
    /\ loop_exit = "else" => Len(iteration_metrics) = max_iterations

\* max_iterations = 3, negative decisions at iterations 1 and 2, positive at
\* iteration 3: two records, numbered 1 and 2.
C3_Witness ==
    /\ Outcome = "Accepted"
    /\ max_iterations = 3
    /\ observed.critique_calls = 3
    /\ Len(iteration_metrics) = 2
    /\ iteration_metrics[1].iteration = 1
    /\ iteration_metrics[2].iteration = 2

\* C4: when the gateway raises its generation error for a critique or for a
\* refinement, the run is over: run has returned 1, no file has been written
\* and no critique or refinement is asked for after the failed call.
C4_GenerationErrorAborts ==
    observed.failure \in {"critique", "refine"} =>
        /\ pc = "failed"
        /\ exit_code = 1
        /\ output = None
        /\ observed.critique_calls + observed.refine_calls = observed.calls_at_failure

\* The refinement of iteration 2 fails after two attempts (max_retries = 2).
C4_Witness ==
    /\ observed.failure = "refine"
    /\ config.max_retries = 2
    /\ observed.critique_calls = 2
    /\ observed.refine_calls = 2
    /\ Len(iteration_metrics) = 1
    /\ Outcome = "Failed"
    /\ exit_code = 1
    /\ output = None

\* C5: at every point of a run there are at most max_iterations critique calls
\* and at most as many refinement calls as critique calls; a run that has
\* ended is Accepted, Exhausted or Failed; and, each request returning or
\* timing out, every run ends and stays ended.
C5_BoundedTermination ==
    /\ [](/\ observed.critique_calls <= max_iterations
          /\ observed.refine_calls <= max_iterations
          /\ observed.refine_calls <= observed.critique_calls
          /\ Terminated => Outcome \in {"Accepted", "Exhausted", "Failed"})
    /\ <>[]Terminated

\* A run that used its whole budget: three critiques and three refinements.
C5_Witness ==
    /\ Terminated
    /\ max_iterations = 3
    /\ observed.critique_calls = max_iterations
    /\ observed.refine_calls = max_iterations

(***************************************************************************)
(* Properties of the documentation validator.                              *)
(***************************************************************************)
\* The issues of a validation that are about one documented name.
IssuesAbout(issues, token) == SelectSeq(issues, LAMBDA issue : issue.element = token)

\* C20: for every name extracted from the documentation the validator emits
\* no issue when the name is exactly an indexed name, exactly one warning
\* naming_inconsistency whose suggested fix is the indexed name when it matches
\* an indexed name case-insensitively only, and exactly one error
\* missing_element naming it when it matches no indexed name.
C20_DocumentedElementIssues ==
    call.op = "validate_documentation" =>
        \A token \in call.documented_elements :
            \E about \in {IssuesAbout(call.result, token)},
               names \in {ElementNames(call.code_elements)} :
                IF token \in names THEN about = <<>>
                ELSE IF \E n \in names : LowerToken(n) = LowerToken(token)
                THEN /\ Len(about) = 1
                     /\ about[1].severity = "warning"
                     /\ about[1].issue_type = "naming_inconsistency"
                     /\ about[1].suggested_fix \in names
                     /\ LowerToken(about[1].suggested_fix) = LowerToken(token)
                ELSE /\ Len(about) = 1
                     /\ about[1].severity = "error"
                     /\ about[1].issue_type = "missing_element"
                     /\ about[1].suggested_fix = token

\* One validation meets the three cases: calculate_sum is indexed, calculator
\* differs from Calculator in case only, nonExistentFunction is not indexed.
C20_Witness ==
    /\ call.op = "validate_documentation"
    /\ call.code_elements = CalculatorIndex
    /\ call.documented_elements = {"calculate_sum", "calculator", "nonExistentFunction"}
    /\ IssuesAbout(call.result, "calculate_sum") = <<>>
    /\ Len(IssuesAbout(call.result, "calculator")) = 1
    /\ IssuesAbout(call.result, "calculator")[1].suggested_fix = "Calculator"
    /\ Len(IssuesAbout(call.result, "nonExistentFunction")) = 1

\* The undocumented_element issues of a validation.
UndocumentedIssues(issues) ==
    SelectSeq(issues, LAMBDA issue : issue.issue_type = "undocumented_element")

\* The public elements of the index that the documentation does not name.
PublicAbsent(code_elements, documented_elements) ==
    {code_elements[k].name : k \in
        {j \in 1..Len(code_elements) :
            /\ code_elements[j].type \in {"function", "class"}
            /\ code_elements[j].name \notin {"_helper"}     \* the private name
            /\ code_elements[j].name \notin documented_elements}}

\* C21: in one validation a warning undocumented_element is emitted only for
\* public functions and classes whose name is not among the documented names,
\* at most once per element and at most 5 per validation, and at least one is
\* emitted whenever such an element exists.
C21_UndocumentedWarnings ==
    call.op = "validate_documentation" =>
        \E emitted \in {UndocumentedIssues(call.result)},
           absent \in {PublicAbsent(call.code_elements, call.documented_elements)} :
            /\ \A k \in 1..Len(emitted) :
                    /\ emitted[k].severity = "warning"
                    /\ emitted[k].element \in absent
                    /\ \A j \in 1..Len(emitted) :
                           emitted[j].element = emitted[k].element => j = k
            /\ Len(emitted) <= 5
            /\ absent # {} => Len(emitted) >= 1

\* The documentation names calculate_sum only: one warning, for Calculator,
\* and no error.
C21_Witness ==
    /\ call.op = "validate_documentation"
    /\ call.code_elements = CalculatorIndex
    /\ call.documented_elements = {"calculate_sum"}
    /\ Len(UndocumentedIssues(call.result)) = 1
    /\ UndocumentedIssues(call.result)[1].element = "Calculator"
    /\ \A k \in 1..Len(call.result) : call.result[k].severity # "error"

(***************************************************************************)
(* Properties of the cache under concurrent use.                           *)
(***************************************************************************)
\* C22: when several processes use one cache directory without locking, a get
\* returns a miss or a response that is exactly the value passed to some set
\* for that key, completed or in progress, never a response that mixes or
\* truncates written values.
C22_NoMixedResponse ==
    call.op = "get" => call.result = None \/ call.result \in call.passed

(***************************************************************************)
(* Properties of the requests of a run.                                    *)
(***************************************************************************)
\* C23: the initial draft is obtained through the gateway like critiques and
\* refinements.  A step of the run at the draft is one request to the
\* generator: through the gateway the run fails there after a single failed
\* attempt only when max_retries allows no second one, and with caching
\* enabled the draft it obtains is in the cache directory afterwards.
C23_DraftThroughGateway ==
    [][pc = "draft" =>
        /\ pc' = "failed" => config.max_retries <= 1
        /\ (/\ pc' # "failed"
            /\ config.max_retries >= 1
            /\ config.enable_caching
            /\ files = EmptyDir) => files' # EmptyDir]_vars

(***************************************************************************)
(* Properties of the aspect scores.                                        *)
(***************************************************************************)
\* The matches of a critique for the patterns of one aspect.
MatchesOf(critique_text, patterns, aspect) ==
    count_pattern_matches(strip(lower(critique_text)), patterns[aspect])

\* C24: for match counts P, N >= 0 the aspect score is 0.5 when P = 0 and
\* N = 0 and otherwise ((P * 1.0 - N * 1.2) / (P + N) + 1) / 2 clamped to
\* [0, 1], that is (10 P - N) / (10 (P + N)) clamped; so an aspect with only
\* positive matches scores 1, an aspect with only negative matches scores 0,
\* and a critique with no match in any of the five aspects has overall_score
\* exactly 0.5.
C24_AspectScore ==
    /\ call.op = "_calculate_aspect_score" =>
            \E P \in {call.positive_matches}, N \in {call.negative_matches} :
                /\ (P = 0 /\ N = 0) => call.result = <<1, 2>>
                /\ (P + N > 0 /\ 10 * P - N <= 0) => call.result = <<0, 1>>
                /\ (P + N > 0 /\ 10 * P - N >= 10 * (P + N)) => call.result = <<1, 1>>
                /\ (P + N > 0 /\ 10 * P - N > 0 /\ 10 * P - N < 10 * (P + N)) =>
                        call.result[1] * 10 * (P + N) = call.result[2] * (10 * P - N)
                /\ (P > 0 /\ N = 0) => call.result = <<1, 1>>
                /\ (P = 0 /\ N > 0) => call.result = <<0, 1>>
    /\ call.op = "analyze_critique_semantically" =>
            /\ (\A k \in 1..Len(Aspects) :
                    /\ MatchesOf(call.critique, positive_patterns, Aspects[k]) = 0
                    /\ MatchesOf(call.critique, negative_patterns, Aspects[k]) = 0)
                 => call.result.overall_score = <<1, 2>>
            /\ \A k \in 1..Len(Aspects) :
                    \E P \in {MatchesOf(call.critique, positive_patterns, Aspects[k])},
                       N \in {MatchesOf(call.critique, negative_patterns, Aspects[k])} :
                        /\ (P = 0 /\ N = 0) => call.result[Aspects[k]] = <<1, 2>>
                        /\ (P > 0 /\ N = 0) => call.result[Aspects[k]] = <<1, 1>>
                        /\ (P = 0 /\ N > 0) => call.result[Aspects[k]] = <<0, 1>>

\* One positive and one negative match: the score is 9/20, below the middle.
C24_Witness ==
    /\ call.op = "_calculate_aspect_score"
    /\ call.positive_matches = 1
    /\ call.negative_matches = 1
    /\ call.result = <<9, 20>>

\* part is a run of consecutive tokens of text.
OccursIn(text, part) ==
    \E k \in 0..(Len(text) - Len(part)) : SubSeq(text, k + 1, k + Len(part)) = part

\* C25: the steps of a run are strictly ordered.  A critique is requested
\* only once there is a draft, on the current draft, which is the initial
\* draft or the text the last refinement returned.  A refinement is requested
\* only right after a critique of the current draft that was decided
\* negative, with that critique in its prompt (with caching enabled the
\* answer is stored under this prompt), and the text it returns replaces the
\* draft.
C25_StrictOrder ==
    [][/\ observed'.critique_calls > observed.critique_calls =>
            /\ observed.draft # None
            /\ documentation # None
            /\ observed'.critiqued = documentation
            /\ documentation = IF observed.refinements = <<>> THEN observed.draft
                               ELSE observed.refinements[Len(observed.refinements)]
            /\ observed.critique_calls = observed.refine_calls
       /\ observed'.refine_calls > observed.refine_calls =>
            /\ observed.decision = "negative"
            /\ observed.critiqued = documentation
            /\ observed.critique_calls = observed.refine_calls + 1
            /\ critique = Decision(documentation, initial_critique,
                                   config.critique_threshold).critique
            /\ pc' # "failed" =>
                    /\ documentation' = observed'.refinements[Len(observed'.refinements)]
                    /\ config.enable_caching =>
                            \E cache_key \in DOMAIN files' :
                                /\ OccursIn(cache_key, <<"<critique to address>">> \o critique)
                                /\ OccursIn(cache_key, documentation)]_vars

\* The second critique of a run with caching has been requested: it is on
\* the text the first refinement returned, which differs from the first draft.
C25_Witness ==
    /\ observed.critique_calls = 2
    /\ observed.refine_calls = 1
    /\ config.enable_caching
    /\ observed.critiqued = observed.refinements[1]
    /\ observed.critiqued # observed.draft
    /\ documentation = observed.refinements[1]
    /\ pc = "decide"

(***************************************************************************)
(* Properties of the texts the gateway returns.                            *)
(***************************************************************************)
\* C26: every text a successful call_ollama_api returns, from the network or
\* from the cache, is non-empty: content that is empty, or empty once
\* trimmed, is a failed attempt, is never returned and never cached.
C26_NonEmptyText ==
    call.op = "call_ollama_api" =>
        /\ (call.kind = "return" /\ call.value # None) => call.value # <<>>
        /\ \A cache_key \in DOMAIN files : files[cache_key].content.response # <<>>

\* C27: for every max_retries >= 0 a call_ollama_api that misses the cache
\* ends by returning a text or by raising the generation error; it never
\* returns without a text.
C27_TextOrError ==
    call.op = "call_ollama_api" => call.kind = "raise" \/ call.value # None

(***************************************************************************)
(* Properties of critiques that match no pattern.                          *)
(***************************************************************************)
\* The critique matches no pattern of any aspect.
NoPatternMatch(critique_text) ==
    \A k \in 1..Len(Aspects) :
        /\ MatchesOf(critique_text, positive_patterns, Aspects[k]) = 0
        /\ MatchesOf(critique_text, negative_patterns, Aspects[k]) = 0

\* C28: a critique with no pattern match in any aspect and no explicit
\* positive phrase has confidence at most 0.5 and final_score at most 0.25
\* whatever the validator found, so it is never judged positive when
\* critique_threshold > 0.25, whatever its length.
C28_NoMatchNeverPositive ==
    (/\ call.op = "is_critique_positive"
     /\ ~HasExplicitPositive(call.critique)
     /\ NoPatternMatch(call.critique)) =>
        \E semantic \in {analyze_critique_semantically(call.critique)} :
            /\ RLe(semantic.confidence, <<1, 2>>)
            /\ RLe(create_semantic_critique_score(
                       semantic, IssuesFor(call.documentation, call.validator)), <<1, 4>>)
            /\ RLt(<<1, 4>>, call.threshold) => call.result = FALSE

\* A critique of more than 50 words without any match, no validator: the
\* confidence is 0.5, the final score 0.25, and the decision at threshold 0.45
\* is negative.
C28_Witness ==
    /\ call.op = "is_critique_positive"
    /\ call.critique = <<"<paragraph>">>
    /\ call.validator = None
    /\ call.threshold = <<9, 20>>
    /\ analyze_critique_semantically(call.critique).confidence = <<1, 2>>
    /\ create_semantic_critique_score(analyze_critique_semantically(call.critique), <<>>)
            = <<1, 4>>
    /\ call.result = FALSE

(***************************************************************************)
(* Properties of the LangGraph workflow.                                   *)
(***************************************************************************)
\* The text a cycle ends with: the last refinement, or the initial draft.
LastDraft == IF observed.refinements = <<>> THEN observed.draft
             ELSE observed.refinements[Len(observed.refinements)]

\* C29: the workflow makes the requests AIAgent.run makes and ends with the
\* same document: never more critiques than max_iterations (none at all for
\* max_iterations = 0), a critique for each refinement and one more when the
\* cycle ends on a positive decision, and as many critiques as refinements,
\* max_iterations of each, when the budget is exhausted; the document at the
\* end is the last draft obtained.
C29_SameCyclesAsRun ==
    /\ observed.critique_calls <= max_iterations
    /\ pc \in {"save", "done"} =>
            /\ documentation = LastDraft
            /\ loop_exit = "break" => observed.critique_calls = observed.refine_calls + 1
            /\ loop_exit = "else" =>
                    /\ observed.critique_calls = max_iterations
                    /\ observed.refine_calls = max_iterations

\* C30: in the workflow the decision to accept honours the validator: a
\* draft accepted without an explicit positive phrase has no Error, and its
\* final score with the penalties for its Warnings and Errors reaches the
\* threshold, as in AIAgent.run.
C30_ValidatorHonoured ==
    (/\ pc = "save"
     /\ loop_exit = "break"
     /\ ~HasExplicitPositive(critique)) =>
        \E reported \in {validate_documentation(documentation_validator, documentation)} :
            /\ NumberOf(reported, "error") = 0
            /\ RLe(config.critique_threshold,
                   Clamp01(PenalisedScore(analyze_critique_semantically(critique), reported)))

====
